---- MODULE Spec2Model ----
(***************************************************************************)
(* Model of pull_daily_ohlc.py (class HyperliquidDailyOHLC): the per-asset *)
(* incremental update of daily OHLC archives with Donchian channels.       *)
(*                                                                         *)
(* Time is counted in ticks, DayLen ticks to one UTC day.  A bar carries   *)
(* its close timestamp T, its high and its low; open, close, volume and    *)
(* the asset tag travel with the row exactly as high and low do and are    *)
(* not represented.  Prices are even numbers, so that the mean of two of   *)
(* them is exact.  The Donchian periods are scaled down to <<2, 3>> so     *)
(* that full rolling windows occur in archives of a few rows.              *)
(***************************************************************************)
EXTENDS Integers, Sequences, FiniteSets, TLC

VARIABLES
    clock,              \* the wall clock (UTC), in ticks
    remote,             \* remote[a]: the bars the remote source holds for asset a
    archive,            \* archive[a]: the file <data_dir>/<a>_daily.csv, or Absent
    full_historical,    \* self.full_historical of the running process
    pc,                 \* position of run(): "idle", "loop", "done", "exited", "crashed"
    assets,             \* the registry snapshot of the run
    idx,                \* 1-based position of the asset loop
    successful_assets,  \* run()'s successful_assets list
    failed_assets,      \* run()'s failed_assets list
    last,               \* what the latest loop iteration did (history)
    stable,             \* stable[a]: a succeeded in a daily-update run and remote[a] is as it was then
    remote_calls,       \* of the running process: registry requests sent, whether a bar-range request was sent (history)
    unpaced,            \* a request was sent and the process has not slept since (history)
    assets_data,        \* the dict update_assets_list dumps to assets.json, once it did
    summary,            \* the dict create_summary_file dumps to last_run_summary.json, once it did
    fetch_in,           \* input of an isolated Fetcher call
    fetch_out,          \* its result
    save_in,            \* input of an isolated normalise-and-save call
    save_out            \* its result

vars == <<clock, remote, archive, full_historical, pc, assets, idx,
          successful_assets, failed_assets, last, stable,
          remote_calls, unpaced, assets_data, summary,
          fetch_in, fetch_out, save_in, save_out>>

runVars == <<clock, remote, archive, full_historical, pc, assets, idx,
             successful_assets, failed_assets, last, stable,
             remote_calls, unpaced, assets_data, summary>>

(***************************************************************************)
(* Bounds of the model.                                                    *)
(***************************************************************************)
DayLen == 2          \* ticks per UTC day
MaxClock == 3        \* the clock runs over 0..MaxClock
MaxRemote == 2       \* bars the remote source holds, all assets together
MaxPrice == 2        \* prices are 2, 4, .., 2*MaxPrice
MaxTear == 2         \* how far a torn write gets: 0 nothing, 1 the header, k+1 k rows
MaxFetched == 2      \* bars of one response given to an isolated save
MaxStamp == 3        \* timestamps of an isolated save are 0..MaxStamp

(***************************************************************************)
(* Program constants.                                                      *)
(***************************************************************************)
max_retries == 3
initial_retry_delay == 3
history_days == 730
days_back == 1       \* the default of DAYS_BACK
donchian_periods == <<2, 3>>

Assets == {"A", "B"}
\* a file that does not exist; an existing file has its header line (or not even
\* that: a file of zero bytes) and its rows
Absent == [exists |-> FALSE, header |-> FALSE, rows |-> <<>>]
File(header, rows) == [exists |-> TRUE, header |-> header, rows |-> rows]
\* the missing value of a rolling window with fewer than min_periods rows
NaN == -1

Periods == {donchian_periods[i] : i \in 1..Len(donchian_periods)}
Range(s) == {s[i] : i \in 1..Len(s)}
MaxOf(S) == CHOOSE x \in S : \A y \in S : y <= x
MinOf(S) == CHOOSE x \in S : \A y \in S : x <= y

(***************************************************************************)
(* Timestamps.  In a DataFrame a timestamp is a datetime64, an integer     *)
(* count of ticks since the epoch, as the remote T is; in the csv file it  *)
(* is the text "date time".                                                *)
(***************************************************************************)
format_timestamp(t) == [date |-> t \div DayLen, time |-> t % DayLen]
parse_timestamp(txt) == txt.date * DayLen + txt.time
date_of(t) == t \div DayLen

(***************************************************************************)
(* Indicator Engine.                                                       *)
(***************************************************************************)
\* Series.rolling(window, min_periods=window).max() at row i (1-based)
rolling_max(df, i, period) ==
    IF i < period THEN NaN
    ELSE MaxOf({df[j].high : j \in (i - period + 1)..i})

\* Series.rolling(window, min_periods=window).min() at row i
rolling_min(df, i, period) ==
    IF i < period THEN NaN
    ELSE MinOf({df[j].low : j \in (i - period + 1)..i})

\* (donchian_high + donchian_low) / 2; NaN when an operand is NaN
channel_mid(hi, lo) == IF hi = NaN \/ lo = NaN THEN NaN ELSE (hi + lo) \div 2

calculate_donchian_channels(df) ==
    IF df = <<>> THEN df
    ELSE [i \in 1..Len(df) |->
            [timestamp |-> df[i].timestamp, high |-> df[i].high, low |-> df[i].low,
             donchian |-> [p \in Periods |->
                 [high |-> rolling_max(df, i, p),
                  low  |-> rolling_min(df, i, p),
                  mid  |-> channel_mid(rolling_max(df, i, p), rolling_min(df, i, p))]]]]

\* a merge that leaves the stored donchian_* columns as they are
recalculate_keeps_stored(df) == df

\* drops the donchian_* columns and computes them again over the whole frame
recalculate_donchian_for_existing(df) ==
    calculate_donchian_channels(
        [i \in 1..Len(df) |->
            [timestamp |-> df[i].timestamp, high |-> df[i].high, low |-> df[i].low]])

(***************************************************************************)
(* Series Normalizer.                                                      *)
(***************************************************************************)
IsSorted(df) == \A i \in 1..(Len(df) - 1) : df[i].timestamp <= df[i + 1].timestamp

\* DataFrame.sort_values('timestamp'): the default sort is not stable, rows of
\* equal timestamp come out in any order
sort_values(df) ==
    {q \in {[i \in 1..Len(df) |-> df[p[i]]] : p \in Permutations(1..Len(df))} : IsSorted(q)}

\* the frames process_ohlc_data can return for a raw response
process_ohlc_data(raw_data) ==
    IF raw_data = <<>> THEN {<<>>}
    ELSE {calculate_donchian_channels(q) :
            q \in sort_values([i \in 1..Len(raw_data) |->
                    [timestamp |-> raw_data[i].T,
                     high |-> raw_data[i].h, low |-> raw_data[i].l]])}

(***************************************************************************)
(* Archive Merger.                                                         *)
(***************************************************************************)
to_csv(df) ==
    File(TRUE, [i \in 1..Len(df) |->
                 [timestamp |-> format_timestamp(df[i].timestamp),
                  high |-> df[i].high, low |-> df[i].low, donchian |-> df[i].donchian]])

\* pd.read_csv followed by pd.to_datetime on the timestamp column
read_frame(file) ==
    [i \in 1..Len(file.rows) |->
        [timestamp |-> parse_timestamp(file.rows[i].timestamp),
         high |-> file.rows[i].high, low |-> file.rows[i].low,
         donchian |-> file.rows[i].donchian]]

RECURSIVE keep_from(_, _)
keep_from(df, i) ==
    IF i > Len(df) THEN <<>>
    ELSE IF \E j \in (i + 1)..Len(df) : df[j].timestamp = df[i].timestamp
         THEN keep_from(df, i + 1)
         ELSE <<df[i]>> \o keep_from(df, i + 1)

RECURSIVE keep_first_from(_, _)
keep_first_from(df, i) ==
    IF i > Len(df) THEN <<>>
    ELSE IF \E j \in 1..(i - 1) : df[j].timestamp = df[i].timestamp
         THEN keep_first_from(df, i + 1)
         ELSE <<df[i]>> \o keep_first_from(df, i + 1)

\* drop_duplicates with keep='first': the stored row wins
drop_duplicates_keep_first(df) == keep_first_from(df, 1)

\* DataFrame.drop_duplicates(subset=['timestamp'], keep='last')
drop_duplicates(df) == keep_from(df, 1)

\* what a write of df leaves on disk: io.kind "open_fail" fails before the file
\* is touched, "torn" fails after the file was truncated and partly written
write_csv(file, df, io) ==
    CASE io.kind = "open_fail" -> file
      [] io.kind = "torn" /\ io.level = 0 -> File(FALSE, <<>>)
      [] io.kind = "torn" /\ io.level > 0 ->
            File(TRUE, SubSeq(to_csv(df).rows, 1,
                              IF io.level - 1 < Len(df) - 1 THEN io.level - 1 ELSE Len(df) - 1))
      [] OTHER -> to_csv(df)

\* os.path.exists(asset_file) and not self.full_historical
merge_path(file, fh) == file.exists /\ ~fh

\* whether save_asset_data runs into an exception (which it catches and logs)
save_raises(df, file, fh, io) ==
    /\ df # <<>>
    /\ \/ merge_path(file, fh) /\ (io.kind = "read_fail" \/ ~file.header)
       \/ io.kind \in {"open_fail", "torn"}

\* the file save_asset_data leaves on disk
save_asset_data(df, file, fh, io) ==
    IF df = <<>> THEN file
    ELSE IF merge_path(file, fh)
    THEN IF io.kind = "read_fail" \/ ~file.header THEN file
         ELSE LET combined == drop_duplicates(read_frame(file) \o df)
                  sorted == CHOOSE q \in sort_values(combined) : TRUE
              IN write_csv(file, recalculate_donchian_for_existing(sorted), io)
    ELSE write_csv(file, df, io)

IoOutcomes ==
    {[kind |-> k, level |-> 0] : k \in {"ok", "read_fail", "open_fail"}}
        \cup {[kind |-> "torn", level |-> n] : n \in 0..MaxTear}

(***************************************************************************)
(* Fetcher.  A response is its HTTP status (0: no response, the request    *)
(* failed in the network) and, for 200, what the body is: "bars" the list  *)
(* of bars, "object" valid JSON that is no list, "garbage" no JSON.        *)
(***************************************************************************)
Responses ==
    {[status |-> s, body |-> "none"] : s \in {0, 404, 500, 503}}
        \cup {[status |-> 200, body |-> b] : b \in {"bars", "object", "garbage"}}

no_data(attempt, sleeps) == [data |-> <<>>, attempts |-> attempt, sleeps |-> sleeps]

\* a Fetcher that takes every failed request for a transient one
RECURSIVE fetch_attempt_retry_any(_, _, _, _, _)
fetch_attempt_retry_any(script, bars, attempt, retry_delay, sleeps) ==
    IF attempt >= max_retries THEN no_data(attempt, sleeps)
    ELSE LET r == script[attempt + 1] IN
         IF r.status = 200 /\ r.body = "bars" /\ bars # <<>>
         THEN [data |-> bars, attempts |-> attempt + 1, sleeps |-> sleeps]
         ELSE IF attempt < max_retries - 1
              THEN fetch_attempt_retry_any(script, bars, attempt + 1, retry_delay * 2,
                                           Append(sleeps, retry_delay))
              ELSE no_data(attempt + 1, sleeps)

RECURSIVE fetch_attempt(_, _, _, _, _)
fetch_attempt(script, bars, attempt, retry_delay, sleeps) ==
    IF attempt >= max_retries THEN no_data(attempt, sleeps)
    ELSE LET r == script[attempt + 1] IN
         CASE r.status = 0 -> no_data(attempt + 1, sleeps)
           [] r.status >= 400 ->
                IF r.status = 500 /\ attempt < max_retries - 1
                THEN fetch_attempt(script, bars, attempt + 1, retry_delay * 2,
                                   Append(sleeps, retry_delay))
                ELSE no_data(attempt + 1, sleeps)
           [] OTHER ->
                IF r.body = "bars" /\ bars # <<>>
                THEN [data |-> bars, attempts |-> attempt + 1, sleeps |-> sleeps]
                ELSE no_data(attempt + 1, sleeps)

\* script[k] is the remote's answer to the k-th request of the call
get_historical_ohlc(script, bars) ==
    fetch_attempt(script, bars, 0, initial_retry_delay, <<>>)

(***************************************************************************)
(* Range Planner.                                                          *)
(***************************************************************************)
\* a planned window; skip stands for the pair (None, None)
Window(start, end) == [skip |-> FALSE, start |-> start, end |-> end]
NoUpdate == [skip |-> TRUE, start |-> 0, end |-> 0]

\* a planner that takes an archive ending today for one to extend
calculate_time_range_strict(file, current_utc, fh, db) ==
    LET current_date == date_of(current_utc) IN
    IF fh \/ ~file.exists THEN Window(current_utc - history_days * DayLen, current_utc)
    ELSE IF ~file.header THEN Window(current_utc - db * DayLen, current_utc)
    ELSE IF file.rows # <<>>
    THEN LET last_timestamp == parse_timestamp(file.rows[Len(file.rows)].timestamp)
             last_date == date_of(last_timestamp)
         IN IF last_date > current_date THEN NoUpdate
            ELSE Window((last_date + 1) * DayLen, current_utc)
    ELSE Window(current_utc - db * DayLen, current_utc)

\* a planner that takes an archive without a readable last row for up to date
calculate_time_range_no_fallback(file, current_utc, fh, db) ==
    LET current_date == date_of(current_utc) IN
    IF fh \/ ~file.exists THEN Window(current_utc - history_days * DayLen, current_utc)
    ELSE IF ~file.header \/ file.rows = <<>> THEN NoUpdate
    ELSE LET last_timestamp == parse_timestamp(file.rows[Len(file.rows)].timestamp)
             last_date == date_of(last_timestamp)
         IN IF last_date >= current_date THEN NoUpdate
            ELSE Window((last_date + 1) * DayLen, current_utc)

calculate_time_range(file, current_utc, fh, db) ==
    LET current_date == date_of(current_utc) IN
    IF fh \/ ~file.exists THEN Window(current_utc - history_days * DayLen, current_utc)
    ELSE IF ~file.header THEN Window(current_utc - db * DayLen, current_utc)
    ELSE IF file.rows # <<>>
    THEN LET last_timestamp == parse_timestamp(file.rows[Len(file.rows)].timestamp)
             last_date == date_of(last_timestamp)
         IN IF last_date >= current_date THEN NoUpdate
            ELSE Window((last_date + 1) * DayLen, current_utc)
    ELSE Window(current_utc - db * DayLen, current_utc)

(***************************************************************************)
(* Inputs.                                                                 *)
(***************************************************************************)
Prices == {2 * k : k \in 1..MaxPrice}

\* the bars of the remote schema with close timestamp in stamps
BarsAt(stamps) ==
    {b \in [T : stamps, h : Prices, l : Prices] : b.l <= b.h}

SeqsUpTo(S, n) == UNION {[1..k -> S] : k \in 0..n}

Idle ==
    /\ clock = 0
    /\ remote = [a \in Assets |-> <<>>]
    /\ archive = [a \in Assets |-> Absent]
    /\ full_historical = FALSE
    /\ pc = "idle"
    /\ assets = <<>>
    /\ idx = 0
    /\ successful_assets = <<>>
    /\ failed_assets = <<>>
    /\ last = {}
    /\ stable = [a \in Assets |-> FALSE]
    /\ remote_calls = [registry |-> 0, bars |-> FALSE]
    /\ unpaced = FALSE
    /\ assets_data = {}
    /\ summary = {}

(***************************************************************************)
(* An isolated Fetcher call: the remote's answers are drawn in advance.    *)
(***************************************************************************)
InitFetch ==
    /\ Idle
    /\ fetch_in \in {{x} : x \in [script : [1..max_retries -> Responses],
                     bars : SeqsUpTo(BarsAt({0}), 1)]}
    /\ fetch_out = {}
    /\ save_in = {}
    /\ save_out = {}

DoFetch ==
    /\ fetch_out = {}
    /\ \E call \in fetch_in :
          fetch_out' = {get_historical_ohlc(call.script, call.bars)}
    /\ UNCHANGED <<runVars, fetch_in, save_in, save_out>>

SpecFetch == InitFetch /\ [][DoFetch]_vars

(***************************************************************************)
(* An isolated normalise-and-save: run() lines 372-373 on a drawn archive  *)
(* file and a drawn non-empty response.                                    *)
(***************************************************************************)
Fetched == SeqsUpTo(BarsAt(0..MaxStamp), MaxFetched) \ {<<>>}

\* the files an earlier save, complete or torn, can have left
SavedFiles ==
    {Absent, File(FALSE, <<>>), File(TRUE, <<>>)}
        \cup UNION {{to_csv(df) : df \in process_ohlc_data(raw)} : raw \in Fetched}

InitSave ==
    /\ Idle
    /\ save_in \in {{x} : x \in [file : SavedFiles, raw : Fetched, fh : BOOLEAN]}
    /\ save_out = {}
    /\ fetch_in = {}
    /\ fetch_out = {}

DoSave ==
    /\ save_out = {}
    /\ \E call \in save_in, io \in IoOutcomes :
          \E df \in process_ohlc_data(call.raw) :
              save_out' = {[df |-> df,
                            file |-> save_asset_data(df, call.file, call.fh, io),
                            raised |-> save_raises(df, call.file, call.fh, io)]}
    /\ UNCHANGED <<runVars, fetch_in, fetch_out, save_in>>

SpecSave == InitSave /\ [][DoSave]_vars

(***************************************************************************)
(* Run Orchestrator.                                                       *)
(***************************************************************************)
\* the remote's answer to a bar-range request: the bars it holds in [start, end)
candle_snapshot(held, start, end) ==
    SelectSeq(held, LAMBDA b : start <= b.T /\ b.T < end)

\* attempts, backoffs: the requests get_historical_ohlc sent and the backoff
\* waits it made; paced: the pass reached time.sleep(1.2)
Outcome(list, file, plan, save_failed, paced, attempts, backoffs) ==
    [list |-> list, file |-> file, plan |-> plan, save_failed |-> save_failed,
     paced |-> paced, attempts |-> attempts, backoffs |-> backoffs]

\* one pass of the body of run()'s loop over an asset whose archive is file and
\* for which the remote holds the bars held: the outcomes it can have.  exc: an
\* exception escapes the try body (before anything else happened); script: the
\* remote's answers to the requests; io: how the disk behaves
loop_body(file, now, fh, db, held, exc, script, io) ==
    IF exc THEN {Outcome("failed", file, {}, FALSE, FALSE, 0, 0)}
    ELSE LET plan == calculate_time_range(file, now, fh, db) IN
         IF plan.skip THEN {Outcome("successful", file, {plan}, FALSE, FALSE, 0, 0)}
         ELSE LET fetch == get_historical_ohlc(script,
                               candle_snapshot(held, plan.start, plan.end))
                  raw_data == fetch.data
              IN IF raw_data # <<>>
                 THEN {Outcome("successful", save_asset_data(df, file, fh, io), {plan},
                               save_raises(df, file, fh, io), TRUE,
                               fetch.attempts, Len(fetch.sleeps)) :
                          df \in process_ohlc_data(raw_data)}
                 ELSE {Outcome("failed", file, {plan}, FALSE, TRUE,
                               fetch.attempts, Len(fetch.sleeps))}

\* an exception of the loop body that ends the run
after_iteration_uncaught(out) == IF out.plan = {} THEN "crashed" ELSE "loop"

\* a run that a failed asset ends
after_iteration_stops_on_failure(out) == IF out.list = "failed" THEN "crashed" ELSE "loop"

\* where run() goes after a pass of the loop body: in every case, the exception
\* handler included, to the head of the loop
after_iteration(out) == "loop"

\* get_all_assets() answers: the names of the universe, or [] when the request
\* failed
Registries == {reg \in SeqsUpTo(Assets, Cardinality(Assets)) :
                  \A i, j \in 1..Len(reg) : reg[i] = reg[j] => i = j}

NoAnswer == [k \in 1..max_retries |-> [status |-> 0, body |-> "none"]]
Sound == [kind |-> "ok", level |-> 0]

\* the answers a run meets: the bars at once, the bars after one HTTP 500,
\* HTTP 500 to the end, or HTTP 503
RunScripts ==
    {[k \in 1..max_retries |-> [status |-> 200, body |-> "bars"]],
     [k \in 1..max_retries |->
        IF k = 1 THEN [status |-> 500, body |-> "none"]
        ELSE [status |-> 200, body |-> "bars"]],
     [k \in 1..max_retries |-> [status |-> 500, body |-> "none"]],
     [k \in 1..max_retries |-> [status |-> 503, body |-> "none"]]}

\* the bars the remote source comes to hold in the course of runs: bars stamped
\* with the start of a day, all of one price (what the orchestrator does never
\* depends on a price)
DailyBars ==
    {b \in BarsAt({d * DayLen : d \in 0..(MaxClock \div DayLen)}) :
        b.h = MinOf(Prices) /\ b.l = MinOf(Prices)}

\* the dict update_assets_list writes to assets.json
update_assets_list(reg) == [assets |-> reg, total_assets |-> Len(reg)]

\* a summary whose totals both count every asset of the run
create_summary_file_totals_all(successful, failed, fh) ==
    [successful_assets |-> successful,
     failed_assets |-> failed,
     total_successful |-> Len(successful) + Len(failed),
     total_failed |-> Len(successful) + Len(failed),
     operation_type |-> IF fh THEN "full_historical" ELSE "daily_update"]

\* the dict create_summary_file writes to last_run_summary.json
create_summary_file(successful, failed, fh) ==
    [successful_assets |-> successful,
     failed_assets |-> failed,
     total_successful |-> Len(successful),
     total_failed |-> Len(failed),
     operation_type |-> IF fh THEN "full_historical" ELSE "daily_update"]

\* whether a pass of the loop body sent a request straight after another one:
\* its first request with no sleep since the request before it, or a retry
\* that no backoff wait preceded
sent_back_to_back(out, was_unpaced) ==
    \/ out.attempts >= 1 /\ was_unpaced
    \/ out.backoffs < out.attempts - 1

\* whether, after the pass, a request is the last thing the process did
unpaced_after(out, was_unpaced) ==
    IF out.attempts = 0 THEN was_unpaced /\ ~out.paced ELSE ~out.paced

Init ==
    /\ Idle
    /\ fetch_in = {}
    /\ fetch_out = {}
    /\ save_in = {}
    /\ save_out = {}

\* a process starts and run() finds assets: it writes assets.json and enters
\* the loop
StartRun ==
    /\ pc = "idle"
    /\ \E fh \in BOOLEAN, reg \in Registries \ {<<>>} :
          /\ full_historical' = fh
          /\ assets' = reg
          /\ assets_data' = {update_assets_list(reg)}
    /\ pc' = "loop"
    /\ idx' = 1
    /\ successful_assets' = <<>>
    /\ failed_assets' = <<>>
    /\ last' = {}
    /\ remote_calls' = [registry |-> 1, bars |-> FALSE]
    /\ unpaced' = TRUE
    /\ summary' = {}
    /\ UNCHANGED <<clock, remote, archive, stable, fetch_in, fetch_out, save_in, save_out>>

\* a run that, finding no assets, still leaves a summary
StartRunNoAssetsSummarised ==
    /\ pc = "idle"
    /\ full_historical' \in BOOLEAN
    /\ assets' = <<>>
    /\ pc' = "exited"
    /\ idx' = 0
    /\ successful_assets' = <<>>
    /\ failed_assets' = <<>>
    /\ last' = {}
    /\ remote_calls' = [registry |-> 1, bars |-> FALSE]
    /\ unpaced' = TRUE
    /\ assets_data' = {}
    /\ summary' = {create_summary_file(<<>>, <<>>, full_historical')}
    /\ UNCHANGED <<clock, remote, archive, stable, fetch_in, fetch_out, save_in, save_out>>

\* a process starts and get_all_assets() returns [] (the request failed, or the
\* universe is empty): run() returns at once
StartRunNoAssets ==
    /\ pc = "idle"
    /\ full_historical' \in BOOLEAN
    /\ assets' = <<>>
    /\ pc' = "exited"
    /\ idx' = 0
    /\ successful_assets' = <<>>
    /\ failed_assets' = <<>>
    /\ last' = {}
    /\ remote_calls' = [registry |-> 1, bars |-> FALSE]
    /\ unpaced' = TRUE
    /\ assets_data' = {}
    /\ summary' = {}
    /\ UNCHANGED <<clock, remote, archive, stable, fetch_in, fetch_out, save_in, save_out>>

\* one iteration of the asset loop (the disk is not drawn where the remote gives
\* no bars and nothing is written)
ProcessAsset ==
    /\ pc = "loop"
    /\ idx <= Len(assets)
    /\ LET asset == assets[idx] IN
       \E exc \in BOOLEAN :
       \E script \in IF exc THEN {NoAnswer} ELSE RunScripts :
       \E io \in IF exc \/ script[max_retries].status # 200 THEN {Sound} ELSE IoOutcomes :
          \E out \in loop_body(archive[asset], clock, full_historical, days_back,
                               remote[asset], exc, script, io) :
             /\ archive' = [archive EXCEPT ![asset] = out.file]
             /\ successful_assets' = IF out.list = "successful"
                                     THEN Append(successful_assets, asset)
                                     ELSE successful_assets
             /\ failed_assets' = IF out.list = "failed"
                                 THEN Append(failed_assets, asset)
                                 ELSE failed_assets
             /\ last' = {[asset |-> asset,
                          out |-> [list |-> out.list, plan |-> out.plan,
                                   save_failed |-> out.save_failed,
                                   paced |-> out.paced,
                                   within_budget |-> out.attempts <= max_retries,
                                   back_to_back |-> sent_back_to_back(out, unpaced)]]}
             /\ stable' = [stable EXCEPT
                              ![asset] = out.list = "successful" /\ ~full_historical]
             /\ remote_calls' = [remote_calls EXCEPT !.bars = @ \/ out.attempts >= 1]
             /\ unpaced' = unpaced_after(out, unpaced)
             /\ pc' = after_iteration(out)
    /\ idx' = idx + 1
    /\ UNCHANGED <<clock, remote, full_historical, assets, assets_data, summary,
                   fetch_in, fetch_out, save_in, save_out>>

\* the loop is over: create_summary_file and the closing prints
FinishRun ==
    /\ pc = "loop"
    /\ idx > Len(assets)
    /\ pc' = "done"
    /\ summary' = {create_summary_file(successful_assets, failed_assets, full_historical)}
    /\ UNCHANGED <<clock, remote, archive, full_historical, assets, idx,
                   successful_assets, failed_assets, last, stable,
                   remote_calls, unpaced, assets_data,
                   fetch_in, fetch_out, save_in, save_out>>

RECURSIVE SumLen(_, _)
SumLen(f, S) ==
    IF S = {} THEN 0
    ELSE LET a == CHOOSE x \in S : TRUE IN Len(f[a]) + SumLen(f, S \ {a})

\* the number of bars the remote source holds
Held == SumLen(remote, Assets)

\* the process ends
Exit ==
    /\ pc \in {"done", "exited", "crashed"}
    /\ pc' = "idle"
    /\ assets' = <<>>
    /\ idx' = 0
    /\ successful_assets' = <<>>
    /\ failed_assets' = <<>>
    /\ last' = {}
    /\ remote_calls' = [registry |-> 0, bars |-> FALSE]
    /\ unpaced' = FALSE
    /\ assets_data' = {}
    /\ summary' = {}
    /\ UNCHANGED <<clock, remote, archive, full_historical, stable,
                   fetch_in, fetch_out, save_in, save_out>>

\* time passes between two runs
Tick ==
    /\ pc = "idle"
    /\ clock < MaxClock
    /\ clock' = clock + 1
    /\ UNCHANGED <<remote, archive, full_historical, pc, assets, idx,
                   successful_assets, failed_assets, last, stable,
                   remote_calls, unpaced, assets_data, summary,
                   fetch_in, fetch_out, save_in, save_out>>

\* the remote source comes to hold one more daily bar of an asset, of a day that
\* has begun
RemotePublish ==
    /\ pc = "idle"
    /\ \E a \in Assets :
          /\ Held < MaxRemote
          /\ \E b \in DailyBars :
                /\ b.T < clock
                /\ remote' = [remote EXCEPT ![a] = Append(remote[a], b)]
          /\ stable' = [stable EXCEPT ![a] = FALSE]
    /\ UNCHANGED <<clock, archive, full_historical, pc, assets, idx,
                   successful_assets, failed_assets, last,
                   remote_calls, unpaced, assets_data, summary,
                   fetch_in, fetch_out, save_in, save_out>>

Next ==
    StartRun \/ StartRunNoAssets \/ ProcessAsset \/ FinishRun \/ Exit \/ Tick \/ RemotePublish

Spec == Init /\ [][Next]_vars

\* run() is sequential code: a started pass of the loop body comes to its end
\* (every request has a timeout, every wait is finite), and so does the summary
SpecLive == Spec /\ WF_vars(ProcessAsset) /\ WF_vars(FinishRun)

(***************************************************************************)
(* Claims about runs (Spec).                                               *)
(***************************************************************************)
\* the step is a pass of the loop body, over assets[idx]
Iteration == pc = "loop" /\ idx <= Len(assets) /\ idx' = idx + 1

StoredStamps(file) == [i \in 1..Len(file.rows) |-> parse_timestamp(file.rows[i].timestamp)]

\* C1: after any sequence of runs, whatever the remote answered, no archive has
\* two rows of one timestamp and every archive's rows are in strictly increasing
\* order of timestamp.
C1_StrictlyIncreasing ==
    \A a \in Assets :
        LET t == StoredStamps(archive[a])
        IN \A i, j \in 1..Len(t) : i < j => t[i] < t[j]

\* C2: a daily-update run that follows a run in which the asset succeeded, with
\* the remote source holding for the asset what it held then, leaves the asset's
\* archive as it is.
C2_SecondRunChangesNothing ==
    [][\A a \in Assets : stable[a] /\ ~full_historical => archive'[a] = archive[a]]_vars

\* C6: an asset whose load, merge or persist step failed is in the failed list
\* of the run and not in the succeeded list.
C6_SaveFailureIsReported ==
    \A l \in last :
        l.out.save_failed =>
            /\ l.asset \in Range(failed_assets)
            /\ l.asset \notin Range(successful_assets)

\* C7: a pass of the loop body in which the load, the merge or the write of the
\* archive failed leaves every archive file as it was before the pass.
C7_FailedSaveLeavesArchive ==
    [][Iteration /\ (\E l \in last' : l.out.save_failed) => archive' = archive]_vars

\* C8: whatever happens to an asset, the run goes on to the next one, a pass
\* over one asset leaves the archives of all others alone, and a finished run
\* has entered every asset of the registry in one of its two lists.
C8_FailureIsolation ==
    /\ [][Iteration =>
            /\ pc' = "loop"
            /\ Len(successful_assets') + Len(failed_assets') = idx
            /\ \A b \in Assets \ {assets[idx]} : archive'[b] = archive[b]]_vars
    /\ [](pc = "done" =>
            /\ idx = Len(assets) + 1
            /\ Len(successful_assets) + Len(failed_assets) = Len(assets))

\* a finished run whose first asset failed and whose second asset was saved
C8_Witness ==
    /\ pc = "done"
    /\ Len(assets) = 2
    /\ failed_assets = <<assets[1]>>
    /\ successful_assets = <<assets[2]>>
    /\ \E l \in last : l.asset = assets[2] /\ l.out.paced /\ ~l.out.save_failed
    /\ archive[assets[2]].rows # <<>>

Parseable(file) == file.exists /\ file.header /\ file.rows # <<>>

\* the window the planner owes for an archive whose last row is of date d_last
PlanFor(d_last, now) ==
    IF d_last >= now \div DayLen THEN NoUpdate
    ELSE Window((d_last + 1) * DayLen, now)

C11_PacedAfterEveryAsset ==
    \A l \in last : l.out.paced

\* C12: between any two successive remote calls of a run (registry request,
\* bar-range requests, retries) at least one pacing or backoff delay elapses.
C12_NoBackToBackCalls ==
    \A l \in last : ~l.out.back_to_back

\* C14: the registry is requested exactly once per run; a run whose registry
\* request fails or returns no assets ends having sent no bar-range request,
\* changed no archive and written neither assets.json nor the run summary, and
\* it ends by returning.
C14_EmptyRegistryEndsRun ==
    /\ [](pc # "idle" => remote_calls.registry = 1)
    /\ [](pc = "exited" =>
            /\ assets = <<>>
            /\ ~remote_calls.bars
            /\ last = {}
            /\ assets_data = {}
            /\ summary = {})
    /\ [][(pc' = "exited" \/ pc = "exited") => archive' = archive /\ pc' # "crashed"]_vars

\* a run that found no assets, over archives that an earlier run left
C14_Witness ==
    /\ pc = "exited"
    /\ remote_calls.registry = 1
    /\ \E a \in Assets : archive[a].rows # <<>>

\* C15: after any run no archive holds a bar of the still-incomplete current UTC
\* day of that run.
C15_NoCurrentDayBar ==
    pc = "done" =>
        \A a \in Assets : \A i \in 1..Len(archive[a].rows) :
            archive[a].rows[i].timestamp.date < date_of(clock)

\* the window the planner owes for an archive it cannot take a last date from
FallbackWindow(now) == Window(now - days_back * DayLen, now)

C17_IncrementalKeepsStamps ==
    [][\A a \in Assets :
          /\ archive[a].exists => archive'[a].exists
          /\ ~full_historical =>
                Range(StoredStamps(archive[a])) \subseteq Range(StoredStamps(archive'[a]))]_vars

\* C18: in the summary of a run that reached the loop every asset of the
\* registry snapshot is in exactly one of the two lists, and total_successful
\* and total_failed are the lengths of the lists.
C18_SummaryPartition ==
    \A sm \in summary :
        /\ Range(sm.successful_assets) \cap Range(sm.failed_assets) = {}
        /\ Range(sm.successful_assets) \cup Range(sm.failed_assets) = Range(assets)
        /\ Len(sm.successful_assets) + Len(sm.failed_assets) = Len(assets)
        /\ sm.total_successful = Len(sm.successful_assets)
        /\ sm.total_failed = Len(sm.failed_assets)

\* a summary with an asset in each list
C18_Witness ==
    \E sm \in summary :
        /\ pc = "done"
        /\ sm.total_successful = 1
        /\ sm.total_failed = 1

\* C19: every run terminates: a Fetcher call makes at most 3 attempts, the
\* assets are processed once each in registry order, and a run with assets
\* comes to write the summary whatever the remote answers.
C19_RunTerminates ==
    /\ [](\A l \in last : l.out.within_budget)
    /\ [][Iteration => \A l \in last' : l.asset = assets[idx] /\ assets' = assets]_vars
    /\ [](pc = "done" => idx = Len(assets) + 1 /\ summary # {})
    /\ (pc = "loop" ~> pc = "done")

\* a run wrote its summary though every asset of the registry failed
C19_Witness ==
    /\ pc = "done"
    /\ summary # {}
    /\ Len(assets) = 2
    /\ Len(failed_assets) = 2

(***************************************************************************)
(* Claims about the Fetcher (SpecFetch).                                   *)
(***************************************************************************)
LeadingErrors(script) ==
    MaxOf({n \in 0..Len(script) :
              \A k \in 1..n : script[k].status >= 500 /\ script[k].status <= 599})

\* the k-th backoff delay: 3, 6, 12
Backoff(k) == initial_retry_delay * (2 ^ (k - 1))

\* C4: a Fetcher call that meets a transient server error (HTTP 500) on 3
\* consecutive attempts makes exactly 3 attempts, waits 3, then 6, then 12, and
\* returns the empty result.
C4_RetryExhaustion ==
    \A call \in fetch_in, r \in fetch_out :
        (\A k \in 1..max_retries : call.script[k].status = 500)
            => /\ r.attempts = max_retries
               /\ r.sleeps = <<Backoff(1), Backoff(2), Backoff(3)>>
               /\ r.data = <<>>

\* C5: whenever a request fails with a status of the server-error class (any
\* 5xx) and fewer than 3 attempts were made, the Fetcher waits the current
\* backoff delay and makes another attempt; it returns empty for want of
\* success only after 3 attempts.
C5_RetryEveryServerError ==
    \A call \in fetch_in, r \in fetch_out :
        LET n == LeadingErrors(call.script)
            made == IF n + 1 < max_retries THEN n + 1 ELSE max_retries
        IN /\ r.attempts = made
           /\ Len(r.sleeps) >= made - 1
           /\ \A k \in 1..(made - 1) : r.sleeps[k] = Backoff(k)

\* a failure that is no transient server error: no response (network), a
\* client-error status, a body that is no JSON or no list of bars
OtherFailure(r) ==
    \/ r.status = 0
    \/ r.status >= 400 /\ r.status <= 499
    \/ r.status = 200 /\ r.body \in {"object", "garbage"}

\* C13: a Fetcher call whose request fails with anything but a transient server
\* error makes exactly one attempt, waits for no backoff and returns the empty
\* result to its caller (after retried HTTP 500s: no attempt and no wait more).
C13_NoRetryOnOtherFailure ==
    \A call \in fetch_in, r \in fetch_out : \A k \in 1..max_retries :
        (OtherFailure(call.script[k]) /\ \A j \in 1..(k - 1) : call.script[j].status = 500)
            => /\ r.attempts = k
               /\ Len(r.sleeps) = k - 1
               /\ r.data = <<>>

\* a call whose first request met HTTP 404 returned empty after that one
\* attempt, though a second request would have been answered with bars
C13_Witness ==
    \E call \in fetch_in, r \in fetch_out :
        /\ call.script[1].status = 404
        /\ call.script[2] = [status |-> 200, body |-> "bars"]
        /\ call.bars # <<>>
        /\ r.attempts = 1
        /\ r.sleeps = <<>>
        /\ r.data = <<>>

(***************************************************************************)
(* Claims about the merge and the indicators (SpecSave).                   *)
(***************************************************************************)
Stamps(df) == {df[i].timestamp : i \in 1..Len(df)}
LastAt(df, t) == df[MaxOf({i \in 1..Len(df) : df[i].timestamp = t})]
Merged(call, out) == ~call.fh /\ call.file.exists /\ ~out.raised

\* C3: after an incremental merge the archive holds exactly the union of the
\* stored and the fetched timestamps, one row each; a timestamp that was fetched
\* has the fetched bar's values (newest wins), any other keeps its stored values.
C3_MergeNewestWins ==
    \A call \in save_in, out \in save_out :
        Merged(call, out) =>
            LET old == read_frame(call.file)
                new == out.df
                now == read_frame(out.file)
            IN /\ Stamps(now) = Stamps(old) \cup Stamps(new)
               /\ \A i, j \in 1..Len(now) : now[i].timestamp = now[j].timestamp => i = j
               /\ \A i \in 1..Len(now) :
                     LET src == IF now[i].timestamp \in Stamps(new)
                                THEN LastAt(new, now[i].timestamp)
                                ELSE LastAt(old, now[i].timestamp)
                     IN now[i].high = src.high /\ now[i].low = src.low

\* a merge where a stored day was fetched again with other values, and both the
\* archive and the fetch have a day the other lacks
C3_Witness ==
    \E call \in save_in, out \in save_out :
        /\ Merged(call, out)
        /\ LET old == read_frame(call.file)
               new == out.df
           IN /\ \E i \in 1..Len(old), j \in 1..Len(new) :
                     /\ old[i].timestamp = new[j].timestamp
                     /\ old[i].high # new[j].high
              /\ Stamps(old) \ Stamps(new) # {}
              /\ Stamps(new) \ Stamps(old) # {}

\* the stored indicators of row i for period p are those of the rows around it
IndicatorsRight(rows, i, p) ==
    LET d == rows[i].donchian[p]
        window == (i - p + 1)..i
    IN IF i < p
       THEN d.high = NaN /\ d.low = NaN /\ d.mid = NaN
       ELSE /\ \E j \in window : rows[j].high = d.high
            /\ \A j \in window : rows[j].high <= d.high
            /\ \E j \in window : rows[j].low = d.low
            /\ \A j \in window : rows[j].low >= d.low
            /\ 2 * d.mid = d.high + d.low

\* C10: after every successful persist (first save, full-historical overwrite,
\* incremental merge), for every period P and row i of the stored archive the
\* three Donchian values are absent if i+1 < P (0-based i) and otherwise are the
\* maximum of high, the minimum of low over rows i-P+1..i and their mean.
C10_IndicatorsOfStoredRows ==
    \A call \in save_in, out \in save_out :
        ~out.raised =>
            /\ out.file.exists /\ out.file.header
            /\ \A i \in 1..Len(out.file.rows), p \in Periods :
                  IndicatorsRight(out.file.rows, i, p)

\* a merge that replaced a stored bar by one of lower high, with a full window
\* of the longest period over the merged archive
C10_Witness ==
    \E call \in save_in, out \in save_out :
        /\ Merged(call, out)
        /\ LET old == read_frame(call.file)
               rows == out.file.rows
           IN /\ \E i \in 1..Len(old), j \in 1..Len(out.df) :
                     /\ old[i].timestamp = out.df[j].timestamp
                     /\ old[i].high > out.df[j].high
              /\ Len(rows) >= MaxOf(Periods)
              /\ rows[Len(rows)].donchian[MaxOf(Periods)].high # NaN

====
